---- MODULE Spec2Model ----
(***************************************************************************)
(* The civo_network resource of terraform-provider-civo                    *)
(* (civo/network/resource_network.go): the four CRUD handlers, the         *)
(* CustomizeDiff hook and the delete poller, run by the Terraform host     *)
(* against the Civo backend through one shared *civogo.Client.             *)
(*                                                                         *)
(* Network identifiers are numbers; 0 stands for the empty identifier "".  *)
(* Time is counted in seconds.                                             *)
(***************************************************************************)
EXTENDS Integers, Sequences, FiniteSets, TLC

(* ------------------------------ bounds -------------------------------- *)

\* Networks the backend account may hold before CreateNetwork answers with an
\* error (identifiers 1..MaxNets).
MaxNets == 2

(* ------------------------- program constants -------------------------- *)

\* retry.StateChangeConf of resourceNetworkDelete, in seconds.
Timeout == 3600
Delay == 5
MinTimeout == 3

PendingStates == {"deleting", "exists"}

TargetStates_WithDeleting == {"deleted", "deleting"}

TargetStates == {"deleted"}

(* ------------------------------ domains ------------------------------- *)

Res == {1, 2}
Regions == {"LON1", "NYC1"}
ProviderRegion == "LON1"
Labels == {"web", "db"}
ConfigCIDRs == {"", "10.0.0.0/24"}
ConfigNameservers == {<<>>, <<"1.1.1.1">>}

\* The configurations the host plans a new network with: everything left to
\* the provider and the backend; everything set, with a VLAN; a region only.
Configurations ==
  { [label |-> "web", region |-> "", cidr_v4 |-> "", nameservers_v4 |-> <<>>,
     vlan_id |-> 0],
    [label |-> "db", region |-> "NYC1", cidr_v4 |-> "10.0.0.0/24",
     nameservers_v4 |-> <<"1.1.1.1">>, vlan_id |-> 1],
    [label |-> "web", region |-> "LON1", cidr_v4 |-> "", nameservers_v4 |-> <<>>,
     vlan_id |-> 0] }
NetIds == 1..MaxNets

BackendCIDR == "192.168.1.0/24"
BackendNameservers == <<"8.8.8.8">>

\* The name the backend gives a network: derived from the label at creation.
BackendName(label) == IF label = "web" THEN "cust-web" ELSE "cust-db"

\* The zero value civogo.Network{} (status "absent": no such network).
NoNetwork ==
  [status |-> "absent", region |-> "", name |-> "", label |-> "",
   default |-> FALSE, cidr |-> "", ns |-> <<>>]

\* schema.ResourceData of a resource that is not in the Terraform state.
EmptyState ==
  [id |-> 0, region |-> "", label |-> "", name |-> "", default |-> FALSE,
   cidr_v4 |-> "", nameservers_v4 |-> <<>>, vlan_id |-> 0]

NoConfig == [Label |-> "", CIDRv4 |-> "", Region |-> "", NameserversV4 |-> <<>>,
             VLanConfig |-> FALSE]

NoRefresh == [res |-> "nil", state |-> "", err |-> "none"]
NoList == [err |-> "none", respNil |-> TRUE, found |-> FALSE]
NoDiff == [id |-> 0, old |-> "", new |-> "", err |-> FALSE]

(* --------------------------- pure functions --------------------------- *)

\* expandStringList: appends every string item of the input, in order.
RECURSIVE expandStringList(_)
expandStringList(input) ==
  IF input = <<>> THEN <<>>
  ELSE <<Head(input)>> \o expandStringList(Tail(input))

\* schema HasChange: the old and the new value differ.
HasChange(old, new) == old # new

customizeDiffNetwork_AnyId(id, old, new) == HasChange(old, new)

\* customizeDiffNetwork: TRUE when the hook returns the "immutable" error.
customizeDiffNetwork(id, old, new) == id # 0 /\ HasChange(old, new)

(* ------------------------------- state -------------------------------- *)

VARIABLES
  procs,      \* the resources whose handlers the host runs
  apiRegion,  \* apiClient.Region of the one *civogo.Client all handlers get as m
  nets,       \* backend: network identifier -> network
  nextId,     \* backend: identifier of the next network created
  firewalls,  \* backend: the networks NewFirewall made a default firewall for
  d,          \* per resource: schema.ResourceData the handler reads and writes
  prior,      \* per resource: the state the host persisted before the call
  pc,         \* per resource: position of the running handler, "idle" if none
  op,         \* per resource: the handler the host called last
  diags,      \* per resource: what the handler returned
  configs,    \* per resource: local civogo.NetworkConfig
  network,    \* per resource: identifier of the network CreateNetwork returned
  lastList,   \* per resource: local resp, err of ListNetworks
  reqs,       \* per resource: the API requests of this call, with their region
  ownRegion,  \* per resource: the region of the resource when the call began
  networkID,  \* per resource: local networkID of resourceNetworkDelete
  refresh,    \* per resource: what the Refresh closure returned last
  elapsed,    \* per resource: seconds since WaitForStateContext began
  wait,       \* per resource: the poller's current backoff
  polls,      \* per resource: number of Refresh invocations of this call
  delOk,      \* per resource: a DeleteNetwork of this call returned "success"
  nfPoll,     \* per resource: the poll on which GetNetwork returned not found
  lastDiff    \* the last CustomizeDiff call: its inputs and its result

backendVars == <<nets, nextId, firewalls>>
deleteVars == <<networkID, refresh, elapsed, wait, polls, delOk, nfPoll>>
createVars == <<configs, network>>
vars == <<procs, apiRegion, nets, nextId, firewalls, d, prior, pc, op, diags,
          configs, network, lastList, reqs, ownRegion, networkID, refresh,
          elapsed, wait, polls, delOk, nfPoll, lastDiff>>

IsError(dg) == dg \in {"error", "timeout"}

\* The networks a region-scoped request sees.
Visible(region) ==
  {n \in NetIds : nets[n].status \in {"active", "deleting"} /\ nets[n].region = region}

\* The provider is configured, nothing is created yet.
InitFresh ==
  /\ apiRegion = ProviderRegion
  /\ nextId = 1
  /\ nets = [n \in NetIds |-> NoNetwork]
  /\ firewalls = {}
  /\ d = [r \in Res |-> EmptyState]
  /\ prior = [r \in Res |-> EmptyState]

\* No handler runs.
InitHandlers ==
  /\ pc = [r \in Res |-> "idle"]
  /\ op = [r \in Res |-> "none"]
  /\ diags = [r \in Res |-> "none"]
  /\ configs = [r \in Res |-> NoConfig]
  /\ network = [r \in Res |-> 0]
  /\ lastList = [r \in Res |-> NoList]
  /\ reqs = [r \in Res |-> {}]
  /\ ownRegion = [r \in Res |-> ""]
  /\ networkID = [r \in Res |-> 0]
  /\ refresh = [r \in Res |-> NoRefresh]
  /\ elapsed = [r \in Res |-> 0]
  /\ wait = [r \in Res |-> 0]
  /\ polls = [r \in Res |-> 0]
  /\ delOk = [r \in Res |-> FALSE]
  /\ nfPoll = [r \in Res |-> 0]
  /\ lastDiff = NoDiff

\* One resource, its handlers called one after the other.
Init == procs = {1} /\ InitFresh /\ InitHandlers

(* ------------------------- the host's calls --------------------------- *)

\* What every call starts from: the handler's locals are fresh.
Begin(r, o, first, region) ==
  /\ pc' = [pc EXCEPT ![r] = first]
  /\ op' = [op EXCEPT ![r] = o]
  /\ diags' = [diags EXCEPT ![r] = "none"]
  /\ configs' = [configs EXCEPT ![r] = NoConfig]
  /\ network' = [network EXCEPT ![r] = 0]
  /\ lastList' = [lastList EXCEPT ![r] = NoList]
  /\ reqs' = [reqs EXCEPT ![r] = {}]
  /\ ownRegion' = [ownRegion EXCEPT ![r] = region]
  /\ networkID' = [networkID EXCEPT ![r] = 0]
  /\ refresh' = [refresh EXCEPT ![r] = NoRefresh]
  /\ elapsed' = [elapsed EXCEPT ![r] = 0]
  /\ wait' = [wait EXCEPT ![r] = 0]
  /\ polls' = [polls EXCEPT ![r] = 0]
  /\ delOk' = [delOk EXCEPT ![r] = FALSE]
  /\ nfPoll' = [nfPoll EXCEPT ![r] = 0]
  /\ UNCHANGED <<procs, apiRegion, backendVars, lastDiff>>

\* The handler returns dg: the host persists the resource data, the request
\* structure the handler built is dropped.
Return(r, dg) ==
  /\ pc' = [pc EXCEPT ![r] = "idle"]
  /\ diags' = [diags EXCEPT ![r] = dg]
  /\ prior' = [prior EXCEPT ![r] = d'[r]]
  /\ configs' = [configs EXCEPT ![r] = NoConfig]

Goto(r, label) ==
  /\ pc' = [pc EXCEPT ![r] = label]
  /\ UNCHANGED <<diags, prior>>

Request(r, api, region) ==
  reqs' = [reqs EXCEPT ![r] = @ \cup {[api |-> api, region |-> region]}]

\* CreateContext on a resource that has no identifier, with the planned
\* configuration (computed attributes the configuration omits are empty).
CallCreate(r) ==
  /\ r \in procs /\ pc[r] = "idle" /\ d[r].id = 0
  /\ \E c \in Configurations :
       /\ d' = [d EXCEPT ![r] = [EmptyState EXCEPT !.label = c.label,
                   !.region = c.region, !.cidr_v4 = c.cidr_v4,
                   !.nameservers_v4 = c.nameservers_v4, !.vlan_id = c.vlan_id]]
       /\ prior' = [prior EXCEPT ![r] = EmptyState]
       /\ Begin(r, "create", "create_region", c.region)

\* ReadContext (refresh) on a resource of the state.
CallRead(r) ==
  /\ r \in procs /\ pc[r] = "idle" /\ d[r].id # 0
  /\ UNCHANGED <<d, prior>>
  /\ Begin(r, "read", "read_region", d[r].region)

\* UpdateContext with a planned label and planned nameservers: nameservers the
\* configuration omits keep their value (region is ForceNew and a cidr_v4
\* change is refused by CustomizeDiff).
CallUpdate(r) ==
  /\ r \in procs /\ pc[r] = "idle" /\ d[r].id # 0
  /\ \E label \in Labels, ns \in {d[r].nameservers_v4, <<"1.1.1.1">>} :
       /\ prior' = [prior EXCEPT ![r] = d[r]]
       /\ d' = [d EXCEPT ![r].label = label, ![r].nameservers_v4 = ns]
       /\ Begin(r, "update", "update_region", d[r].region)

\* CustomizeDiff while planning: the identifier, and cidr_v4 before and after.
CallCustomizeDiff(r) ==
  /\ r \in procs /\ pc[r] = "idle"
  /\ \E new \in ConfigCIDRs \cup {d[r].cidr_v4} :
       lastDiff' = [id |-> d[r].id, old |-> d[r].cidr_v4, new |-> new,
                    err |-> customizeDiffNetwork(d[r].id, d[r].cidr_v4, new)]
  /\ UNCHANGED <<procs, apiRegion, backendVars, d, prior, pc, op, diags,
                 createVars, lastList, reqs, ownRegion, deleteVars>>

(* ----------------------- the region overwrite ------------------------- *)

\* "overwrite the region if is defined": d.GetOk("region") is ok for a
\* non-empty region.
RegionAfter(r) == IF d[r].region # "" THEN d[r].region ELSE apiRegion

OverwriteRegion(r, from, to) ==
  /\ pc[r] = from
  /\ apiRegion' = RegionAfter(r)
  /\ Goto(r, to)
  /\ UNCHANGED <<procs, backendVars, d, op, createVars, lastList, reqs,
                 ownRegion, deleteVars, lastDiff>>

CreateRegion(r) == OverwriteRegion(r, "create_region", "create_config")
ReadRegion(r) == OverwriteRegion(r, "read_region", "read_list")
UpdateRegion(r) == OverwriteRegion(r, "update_region", "update_rename")

(* ----------------------- resourceNetworkCreate ------------------------ *)

NetworkConfigOf(r) ==
  [Label |-> d[r].label, CIDRv4 |-> d[r].cidr_v4, Region |-> apiRegion,
   NameserversV4 |-> expandStringList(d[r].nameservers_v4),
   VLanConfig |-> d[r].vlan_id > 0]

CreateConfig(r) ==
  /\ pc[r] = "create_config"
  /\ configs' = [configs EXCEPT ![r] = NetworkConfigOf(r)]
  /\ Goto(r, "create_call")
  /\ UNCHANGED <<procs, apiRegion, backendVars, d, op, network, lastList, reqs,
                 ownRegion, deleteVars, lastDiff>>

\* The network the backend makes of a configuration: it fills in what the
\* configuration leaves empty, and the first network of a region is its default.
CreatedNetwork(c, first) ==
  [status |-> "active", region |-> c.Region, name |-> BackendName(c.Label),
   label |-> c.Label,
   default |-> first,
   cidr |-> IF c.CIDRv4 = "" THEN BackendCIDR ELSE c.CIDRv4,
   ns |-> IF c.NameserversV4 = <<>> THEN BackendNameservers ELSE c.NameserversV4]

\* CreateNetwork fails: the handler returns the error, nothing else happens.
CreateCallErr(r) ==
  /\ pc[r] = "create_call"
  /\ Request(r, "CreateNetwork", configs[r].Region)
  /\ UNCHANGED d
  /\ Return(r, "error")
  /\ UNCHANGED <<procs, apiRegion, backendVars, op, network, lastList,
                 ownRegion, deleteVars, lastDiff>>

\* CreateNetwork succeeds: d.SetId(network.ID).
CreateCallOk(r) ==
  /\ pc[r] = "create_call"
  /\ nextId <= MaxNets
  /\ Request(r, "CreateNetwork", configs[r].Region)
  /\ nets' = [nets EXCEPT ![nextId] = CreatedNetwork(configs[r], Visible(configs[r].Region) = {})]
  /\ nextId' = nextId + 1
  /\ network' = [network EXCEPT ![r] = nextId]
  /\ d' = [d EXCEPT ![r].id = nextId]
  /\ Goto(r, "create_firewall")
  /\ UNCHANGED <<procs, apiRegion, firewalls, op, configs, lastList, ownRegion,
                 deleteVars, lastDiff>>

\* createDefaultFirewall: the configuration NewFirewall is called with.
FirewallConfigOf(r) ==
  [Name |-> <<nets[network[r]].label, "-default">>, NetworkID |-> network[r],
   Region |-> apiRegion]

CreateFirewallOk(r) ==
  /\ pc[r] = "create_firewall"
  /\ Request(r, "NewFirewall", apiRegion)
  /\ firewalls' = firewalls \cup {FirewallConfigOf(r).NetworkID}
  /\ Goto(r, "read_region")
  /\ UNCHANGED <<procs, apiRegion, nets, nextId, d, op, createVars, lastList,
                 ownRegion, deleteVars, lastDiff>>

CreateFirewallErr(r) ==
  /\ pc[r] = "create_firewall"
  /\ Request(r, "NewFirewall", apiRegion)
  /\ UNCHANGED d
  /\ Return(r, "error")
  /\ UNCHANGED <<procs, apiRegion, backendVars, op, network, lastList,
                 ownRegion, deleteVars, lastDiff>>

(* ------------------------ resourceNetworkRead ------------------------- *)

\* The branch of the handler that clears the identifier and returns nil:
\* ListNetworks returned an error and a nil list.
ReadClears(l) == l.err # "none" /\ l.respNil

\* The attributes the handler sets from CurrentNetwork and the client's region.
StateAfterRead(s, cur, region) ==
  [s EXCEPT !.name = cur.name, !.region = region, !.label = cur.label,
            !.default = cur.default, !.cidr_v4 = cur.cidr,
            !.nameservers_v4 = cur.ns]

\* CurrentNetwork: the listed network with the resource's identifier, or the
\* zero value when the loop finds none.
CurrentNetwork(id, listed) == IF id \in listed THEN nets[id] ELSE NoNetwork

\* The ways ListNetworks fails: a request for a list has no not-found answer.
\* A Go function that fails returns a nil list as a rule (respNil); the
\* handler also has a branch for an error that comes with a list.
ListErrors ==
  { [err |-> "other", respNil |-> TRUE, found |-> FALSE],
    [err |-> "other", respNil |-> FALSE, found |-> FALSE] }

\* ListNetworks fails.
ReadListErr(r) ==
  /\ pc[r] = "read_list"
  /\ Request(r, "ListNetworks", apiRegion)
  /\ \E l \in ListErrors :
       /\ lastList' = [lastList EXCEPT ![r] = l]
       /\ IF ReadClears(l)
            THEN /\ d' = [d EXCEPT ![r].id = 0]
                 /\ Return(r, "ok")
            ELSE /\ UNCHANGED d
                 /\ Return(r, "error")
  /\ UNCHANGED <<procs, apiRegion, backendVars, op, network, ownRegion,
                 deleteVars, lastDiff>>

\* ListNetworks succeeds with the networks of the client's region.
ReadListOk(r) ==
  /\ pc[r] = "read_list"
  /\ Request(r, "ListNetworks", apiRegion)
  /\ LET listed == Visible(apiRegion) IN
       /\ lastList' = [lastList EXCEPT ![r] =
                         [err |-> "none", respNil |-> FALSE,
                          found |-> d[r].id \in listed]]
       /\ d' = [d EXCEPT ![r] =
                  StateAfterRead(@, CurrentNetwork(d[r].id, listed), apiRegion)]
  /\ Return(r, "ok")
  /\ UNCHANGED <<procs, apiRegion, backendVars, op, network, ownRegion,
                 deleteVars, lastDiff>>

(* ----------------------- resourceNetworkUpdate ------------------------ *)

\* The backend carries out a change to network id asked for in region: the
\* network is there and not being deleted.
Changeable(id, region) == id \in Visible(region) /\ nets[id].status = "active"

UpdateRenameSkip(r) ==
  /\ pc[r] = "update_rename"
  /\ ~HasChange(prior[r].label, d[r].label)
  /\ Goto(r, "update_config")
  /\ UNCHANGED <<procs, apiRegion, backendVars, d, op, createVars, lastList,
                 reqs, ownRegion, deleteVars, lastDiff>>

UpdateRenameOk(r) ==
  /\ pc[r] = "update_rename"
  /\ HasChange(prior[r].label, d[r].label)
  /\ Changeable(d[r].id, apiRegion)
  /\ Request(r, "RenameNetwork", apiRegion)
  /\ nets' = [nets EXCEPT ![d[r].id].label = d[r].label]
  /\ Goto(r, "update_config")
  /\ UNCHANGED <<procs, apiRegion, nextId, firewalls, d, op, createVars,
                 lastList, ownRegion, deleteVars, lastDiff>>

UpdateRenameErr(r) ==
  /\ pc[r] = "update_rename"
  /\ HasChange(prior[r].label, d[r].label)
  /\ Request(r, "RenameNetwork", apiRegion)
  /\ UNCHANGED d
  /\ Return(r, "error")
  /\ UNCHANGED <<procs, apiRegion, backendVars, op, network, lastList,
                 ownRegion, deleteVars, lastDiff>>

UpdateConfigOf(r) ==
  [NoConfig EXCEPT !.Region = apiRegion,
                   !.NameserversV4 = expandStringList(d[r].nameservers_v4)]

UpdateConfig(r) ==
  /\ pc[r] = "update_config"
  /\ configs' = [configs EXCEPT ![r] = UpdateConfigOf(r)]
  /\ Goto(r, "update_nameservers")
  /\ UNCHANGED <<procs, apiRegion, backendVars, d, op, network, lastList, reqs,
                 ownRegion, deleteVars, lastDiff>>

UpdateNameserversSkip(r) ==
  /\ pc[r] = "update_nameservers"
  /\ ~HasChange(prior[r].nameservers_v4, d[r].nameservers_v4)
  /\ Goto(r, "read_region")
  /\ UNCHANGED <<procs, apiRegion, backendVars, d, op, createVars, lastList,
                 reqs, ownRegion, deleteVars, lastDiff>>

UpdateNameserversOk(r) ==
  /\ pc[r] = "update_nameservers"
  /\ HasChange(prior[r].nameservers_v4, d[r].nameservers_v4)
  /\ Changeable(d[r].id, configs[r].Region)
  /\ Request(r, "UpdateNetwork", configs[r].Region)
  /\ nets' = [nets EXCEPT ![d[r].id].ns =
                IF configs[r].NameserversV4 = <<>> THEN BackendNameservers
                ELSE configs[r].NameserversV4]
  /\ Goto(r, "read_region")
  /\ UNCHANGED <<procs, apiRegion, nextId, firewalls, d, op, createVars,
                 lastList, ownRegion, deleteVars, lastDiff>>

UpdateNameserversErr(r) ==
  /\ pc[r] = "update_nameservers"
  /\ HasChange(prior[r].nameservers_v4, d[r].nameservers_v4)
  /\ Request(r, "UpdateNetwork", configs[r].Region)
  /\ UNCHANGED d
  /\ Return(r, "error")
  /\ UNCHANGED <<procs, apiRegion, backendVars, op, network, lastList,
                 ownRegion, deleteVars, lastDiff>>

(* ---------------------- resourceNetworkDelete ------------------------ *)

\* DeleteContext on a resource of the state.
CallDelete(r) ==
  /\ r \in procs /\ pc[r] = "idle" /\ d[r].id # 0
  /\ UNCHANGED <<d, prior>>
  /\ Begin(r, "delete", "delete_region", d[r].region)

\* The region overwrite, and networkID := d.Id().
DeleteRegion(r) ==
  /\ pc[r] = "delete_region"
  /\ apiRegion' = RegionAfter(r)
  /\ networkID' = [networkID EXCEPT ![r] = d[r].id]
  /\ Goto(r, "wait_delay")
  /\ UNCHANGED <<procs, backendVars, d, op, createVars, lastList, reqs,
                 ownRegion, refresh, elapsed, wait, polls, delOk, nfPoll,
                 lastDiff>>

\* WaitForStateContext sleeps Delay before the first Refresh.
WaitDelay(r) ==
  /\ pc[r] = "wait_delay"
  /\ elapsed' = [elapsed EXCEPT ![r] = Delay]
  /\ Goto(r, "refresh_delete")
  /\ UNCHANGED <<procs, apiRegion, backendVars, d, op, createVars, lastList,
                 reqs, ownRegion, networkID, refresh, wait, polls, delOk,
                 nfPoll, lastDiff>>

\* What the Refresh closure returns when DeleteNetwork returned err, or a
\* response whose Result is not "success".
RefreshOnDelete(err) ==
  IF err # "none" THEN [res |-> "0", state |-> "", err |-> err]
  ELSE [res |-> "resp", state |-> "exists", err |-> "none"]

RefreshOnGet_NotFoundKeepsPolling(err) ==
  IF err = "none" \/ err = "notfound"
    THEN [res |-> "resp", state |-> "deleting", err |-> "none"]
    ELSE [res |-> "nil", state |-> "", err |-> err]

\* What the Refresh closure returns after GetNetwork returned err.
RefreshOnGet(err) ==
  IF err # "none"
    THEN IF err = "notfound"
           THEN [res |-> "resp", state |-> "deleted", err |-> "none"]
           ELSE [res |-> "nil", state |-> "", err |-> err]
    ELSE [res |-> "resp", state |-> "deleting", err |-> "none"]

\* Refresh begins: DeleteNetwork(networkID) succeeds, the backend starts to
\* delete the network, or has deleted it when it answers.
RefreshDeleteOk(r) ==
  /\ pc[r] = "refresh_delete"
  /\ networkID[r] \in Visible(apiRegion)
  /\ polls' = [polls EXCEPT ![r] = @ + 1]
  /\ Request(r, "DeleteNetwork", apiRegion)
  /\ \E st \in {"deleting", "gone"} :
       nets' = [nets EXCEPT ![networkID[r]] =
                  IF st = "gone" THEN [NoNetwork EXCEPT !.status = "gone"]
                  ELSE [@ EXCEPT !.status = "deleting"]]
  /\ delOk' = [delOk EXCEPT ![r] = TRUE]
  /\ Goto(r, "refresh_get")
  /\ UNCHANGED <<procs, apiRegion, nextId, firewalls, d, op, createVars,
                 lastList, ownRegion, networkID, refresh, elapsed, wait, nfPoll,
                 lastDiff>>

\* DeleteNetwork answers with a Result other than "success".
RefreshDeleteFailed(r) ==
  /\ pc[r] = "refresh_delete"
  /\ networkID[r] \in Visible(apiRegion)
  /\ polls' = [polls EXCEPT ![r] = @ + 1]
  /\ Request(r, "DeleteNetwork", apiRegion)
  /\ refresh' = [refresh EXCEPT ![r] = RefreshOnDelete("none")]
  /\ Goto(r, "wait_eval")
  /\ UNCHANGED <<procs, apiRegion, backendVars, d, op, createVars, lastList,
                 ownRegion, networkID, elapsed, wait, delOk, nfPoll, lastDiff>>

\* DeleteNetwork returns an error: not found when the region has no such
\* network, any other error at any time.
RefreshDeleteErr(r) ==
  /\ pc[r] = "refresh_delete"
  /\ polls' = [polls EXCEPT ![r] = @ + 1]
  /\ Request(r, "DeleteNetwork", apiRegion)
  /\ \E err \in {"notfound", "other"} :
       /\ err = "notfound" => networkID[r] \notin Visible(apiRegion)
       /\ refresh' = [refresh EXCEPT ![r] = RefreshOnDelete(err)]
  /\ Goto(r, "wait_eval")
  /\ UNCHANGED <<procs, apiRegion, backendVars, d, op, createVars, lastList,
                 ownRegion, networkID, elapsed, wait, delOk, nfPoll, lastDiff>>

\* Refresh goes on: GetNetwork(networkID) finds the network, or returns not
\* found when the region has no such network, or any other error.
RefreshGet(r) ==
  /\ pc[r] = "refresh_get"
  /\ Request(r, "GetNetwork", apiRegion)
  /\ \E err \in {"none", "notfound", "other"} :
       /\ err = "none" => networkID[r] \in Visible(apiRegion)
       /\ err = "notfound" => networkID[r] \notin Visible(apiRegion)
       /\ refresh' = [refresh EXCEPT ![r] = RefreshOnGet(err)]
       /\ nfPoll' = [nfPoll EXCEPT ![r] = IF err = "notfound" THEN polls[r] ELSE @]
  /\ Goto(r, "wait_eval")
  /\ UNCHANGED <<procs, apiRegion, backendVars, d, op, createVars, lastList,
                 ownRegion, networkID, elapsed, wait, polls, delOk, lastDiff>>

\* WaitForStateContext on one Refresh result: an error ends the wait, a target
\* state ends it with success (ContinuousTargetOccurence is 1), a pending state
\* polls again, any other state is an UnexpectedStateError. A nil result
\* without an error counts against NotFoundChecks; the closure returns none.
WaitOutcome(rf) ==
  IF rf.err # "none" THEN "error"
  ELSE IF rf.res = "nil" THEN "retry"
  ELSE IF rf.state \in TargetStates THEN "done"
  ELSE IF rf.state \in PendingStates THEN "retry"
  ELSE "unexpected"

\* The backoff before the next Refresh: doubled, at least MinTimeout, at most
\* 10 seconds.
NextWait(w) ==
  IF 2 * w < MinTimeout THEN MinTimeout
  ELSE IF 2 * w > 10 THEN 10 ELSE 2 * w

\* The wait ends: the handler returns nil, and the host drops the resource
\* from its state; or the handler returns the error as a diagnostic.
WaitEnd(r) ==
  /\ pc[r] = "wait_eval"
  /\ WaitOutcome(refresh[r]) # "retry"
  /\ IF WaitOutcome(refresh[r]) = "done"
       THEN /\ d' = [d EXCEPT ![r] = EmptyState]
            /\ Return(r, "ok")
       ELSE /\ UNCHANGED d
            /\ Return(r, "error")
  /\ UNCHANGED <<procs, apiRegion, backendVars, op, network, lastList, reqs,
                 ownRegion, deleteVars, lastDiff>>

WaitRetry(r) ==
  /\ pc[r] = "wait_eval"
  /\ WaitOutcome(refresh[r]) = "retry"
  /\ wait' = [wait EXCEPT ![r] = NextWait(@)]
  /\ Goto(r, "wait_sleep")
  /\ UNCHANGED <<procs, apiRegion, backendVars, d, op, createVars, lastList,
                 reqs, ownRegion, networkID, refresh, elapsed, polls, delOk,
                 nfPoll, lastDiff>>

\* The Timeout passes before the backoff does.
TimedOut(e, w) == e + w >= Timeout

\* The backoff passes: the next Refresh.
WaitSleep(r) ==
  /\ pc[r] = "wait_sleep"
  /\ ~TimedOut(elapsed[r], wait[r])
  /\ elapsed' = [elapsed EXCEPT ![r] = @ + wait[r]]
  /\ Goto(r, "refresh_delete")
  /\ UNCHANGED <<procs, apiRegion, backendVars, d, op, createVars, lastList,
                 reqs, ownRegion, networkID, refresh, wait, polls, delOk,
                 nfPoll, lastDiff>>

\* The Timeout passes: WaitForStateContext returns a TimeoutError.
WaitTimeout(r) ==
  /\ pc[r] = "wait_sleep"
  /\ TimedOut(elapsed[r], wait[r])
  /\ UNCHANGED d
  /\ Return(r, "timeout")
  /\ UNCHANGED <<procs, apiRegion, backendVars, op, network, lastList, reqs,
                 ownRegion, deleteVars, lastDiff>>

(* --------------------------- the backend ------------------------------ *)

\* A network is removed behind the provider's back (console, another tool).
BackendRemove(n) ==
  /\ nets[n].status = "active"
  /\ nets' = [nets EXCEPT ![n] = [NoNetwork EXCEPT !.status = "gone"]]
  /\ UNCHANGED <<procs, apiRegion, nextId, firewalls, d, prior, pc, op, diags,
                 createVars, lastList, reqs, ownRegion, deleteVars, lastDiff>>

\* The backend finishes a deletion it has started.
BackendFinish(n) ==
  /\ nets[n].status = "deleting"
  /\ nets' = [nets EXCEPT ![n] = [NoNetwork EXCEPT !.status = "gone"]]
  /\ UNCHANGED <<procs, apiRegion, nextId, firewalls, d, prior, pc, op, diags,
                 createVars, lastList, reqs, ownRegion, deleteVars, lastDiff>>

(* ------------------------- specifications ----------------------------- *)

Create(r) ==
  \/ CallCreate(r) \/ CreateRegion(r) \/ CreateConfig(r)
  \/ CreateCallErr(r) \/ CreateCallOk(r)
  \/ CreateFirewallOk(r) \/ CreateFirewallErr(r)

Read(r) ==
  \/ CallRead(r) \/ ReadRegion(r) \/ ReadListErr(r) \/ ReadListOk(r)

Update(r) ==
  \/ CallUpdate(r) \/ UpdateRegion(r)
  \/ UpdateRenameSkip(r) \/ UpdateRenameOk(r) \/ UpdateRenameErr(r)
  \/ UpdateConfig(r)
  \/ UpdateNameserversSkip(r) \/ UpdateNameserversOk(r) \/ UpdateNameserversErr(r)

\* The steps of a delete the host has called.
DeleteStep(r) ==
  \/ DeleteRegion(r) \/ WaitDelay(r)
  \/ RefreshDeleteOk(r) \/ RefreshDeleteFailed(r) \/ RefreshDeleteErr(r)
  \/ RefreshGet(r)
  \/ WaitEnd(r) \/ WaitRetry(r) \/ WaitSleep(r) \/ WaitTimeout(r)

Delete(r) == CallDelete(r) \/ DeleteStep(r)

\* The life of one resource up to its deletion: created, refreshed, updated,
\* possibly removed behind the provider's back.
Next ==
  \/ \E r \in Res : Create(r) \/ Read(r) \/ Update(r)
  \/ \E n \in NetIds : BackendRemove(n)

Spec == Init /\ [][Next]_vars

\* The resource data create and read leave for configuration c, when the
\* client's region was region before the call.
ConfigOfPlan(c, region) ==
  [Label |-> c.label, CIDRv4 |-> c.cidr_v4,
   Region |-> IF c.region # "" THEN c.region ELSE region,
   NameserversV4 |-> expandStringList(c.nameservers_v4),
   VLanConfig |-> c.vlan_id > 0]

CreatedState(c, region, id) ==
  StateAfterRead([EmptyState EXCEPT !.id = id, !.vlan_id = c.vlan_id],
                 CreatedNetwork(ConfigOfPlan(c, region), TRUE),
                 ConfigOfPlan(c, region).Region)

\* resourceNetworkDelete called once on a network that create and read left
\* in the state; the network may have been removed behind the provider's back,
\* and the handlers of other resources may have left any region in the client.
Gone == [NoNetwork EXCEPT !.status = "gone"]

\* The backend and the resource data when resource 1 holds network id, made
\* from configuration c and since renamed to label with nameservers ns; the
\* networks made before it are gone.
Holding(id, c, region, label, ns) ==
  LET made == CreatedNetwork(ConfigOfPlan(c, region), TRUE)
      net == [made EXCEPT !.label = label, !.ns = ns]
      st == StateAfterRead(CreatedState(c, region, id), net, net.region)
  IN /\ nets = [n \in NetIds |-> IF n = id THEN net
                                 ELSE IF n < id THEN Gone ELSE NoNetwork]
     /\ nextId = id + 1
     /\ firewalls = {id}
     /\ d = [r \in Res |-> IF r = 1 THEN st ELSE EmptyState]
     /\ prior = [r \in Res |-> IF r = 1 THEN st ELSE EmptyState]

\* resourceNetworkDelete on a network that create and read left in the state.
\* The network may have been removed behind the provider's back, and the
\* handlers of other resources may have left any region in the client.
InitDelete ==
  /\ procs = {1}
  /\ InitHandlers
  /\ apiRegion \in Regions
  /\ \E c \in Configurations, region \in Regions, removed \in BOOLEAN :
       LET made == CreatedNetwork(ConfigOfPlan(c, region), TRUE) IN
       /\ nets = [n \in NetIds |-> IF n # 1 THEN NoNetwork
                                   ELSE IF removed THEN Gone ELSE made]
       /\ nextId = 2
       /\ firewalls = {1}
       /\ d = [r \in Res |-> IF r = 1 THEN CreatedState(c, region, 1)
                             ELSE EmptyState]
       /\ prior = d

NextDelete ==
  \/ \E r \in Res : Delete(r)
  \/ \E n \in NetIds : BackendFinish(n)

SpecDelete == InitDelete /\ [][NextDelete]_vars

\* The poller's goroutine and the timers of WaitForStateContext keep running,
\* and every backend call returns.
FairDelete == \A r \in Res : WF_vars(DeleteStep(r))

FairSpecDelete == SpecDelete /\ FairDelete

\* CustomizeDiff while the host plans: on a resource that is new, or that holds
\* a network made from a configuration and possibly updated since.
InitDiff ==
  /\ procs = {1}
  /\ InitHandlers
  /\ apiRegion \in Regions
  /\ \/ InitFresh!2 /\ InitFresh!3 /\ InitFresh!4 /\ InitFresh!5 /\ InitFresh!6
     \/ \E id \in NetIds, c \in Configurations, label \in Labels,
           ns \in {BackendNameservers, <<"1.1.1.1">>} :
          Holding(id, c, apiRegion, label, ns)

NextDiff == \E r \in Res : CallCustomizeDiff(r)

SpecDiff == InitDiff /\ [][NextDiff]_vars

\* Two independent resources, one handler call each, run in parallel by the
\* host on the one client. A resource is new, or holds a network of its own
\* region: resource 1 in LON1, resource 2 in NYC1.
HeldBy(r) ==
  IF r = 1
    THEN [label |-> "web", region |-> "LON1", cidr_v4 |-> "",
          nameservers_v4 |-> <<>>, vlan_id |-> 0]
    ELSE [label |-> "db", region |-> "NYC1", cidr_v4 |-> "10.0.0.0/24",
          nameservers_v4 |-> <<"1.1.1.1">>, vlan_id |-> 1]

InitPar ==
  /\ procs = Res
  /\ InitHandlers
  /\ apiRegion \in Regions
  /\ \E holders \in SUBSET Res :
       LET idOf(r) == Cardinality({q \in holders : q <= r})
           holder(n) == CHOOSE r \in holders : idOf(r) = n
       IN /\ nets = [n \in NetIds |->
                       IF n <= Cardinality(holders)
                         THEN CreatedNetwork(
                                ConfigOfPlan(HeldBy(holder(n)), ProviderRegion), TRUE)
                         ELSE NoNetwork]
          /\ nextId = Cardinality(holders) + 1
          /\ firewalls = {n \in NetIds : n <= Cardinality(holders)}
          /\ d = [r \in Res |->
                    IF r \in holders
                      THEN CreatedState(HeldBy(r), ProviderRegion, idOf(r))
                      ELSE EmptyState]
          /\ prior = d

\* The host calls one handler per resource. The delete handler is left out:
\* it begins with the same region overwrite as the others, and its poller is
\* the subject of SpecDelete.
ParCall(r) ==
  /\ op[r] = "none"
  /\ (CallCreate(r) \/ CallRead(r) \/ CallUpdate(r))

ParStep(r) ==
  \/ CreateRegion(r) \/ CreateConfig(r) \/ CreateCallErr(r) \/ CreateCallOk(r)
  \/ CreateFirewallOk(r) \/ CreateFirewallErr(r)
  \/ ReadRegion(r) \/ ReadListErr(r) \/ ReadListOk(r)
  \/ UpdateRegion(r)
  \/ UpdateRenameSkip(r) \/ UpdateRenameOk(r) \/ UpdateRenameErr(r)
  \/ UpdateConfig(r)
  \/ UpdateNameserversSkip(r) \/ UpdateNameserversOk(r) \/ UpdateNameserversErr(r)

NextPar == \E r \in Res : ParCall(r) \/ ParStep(r)

SpecPar == InitPar /\ [][NextPar]_vars

(* ------------------------------ claims -------------------------------- *)

Returned(r, o) == op[r] = o /\ pc[r] = "idle" /\ diags[r] # "none"

\* C1: a delete reports success on the very poll on which GetNetwork returns
\* not found: if that is poll N, the handler has returned nil after N Refresh
\* invocations, and it never returns nil without such a poll.
C1_SuccessOnNthPoll ==
  \A r \in Res :
    /\ (Returned(r, "delete") /\ nfPoll[r] # 0) =>
          diags[r] = "ok" /\ polls[r] = nfPoll[r]
    /\ (op[r] = "delete" /\ diags[r] = "ok") =>
          nfPoll[r] >= 1 /\ polls[r] = nfPoll[r]
    /\ (op[r] = "delete" /\ pc[r] # "idle" /\ nfPoll[r] # 0) =>
          pc[r] = "wait_eval" /\ polls[r] = nfPoll[r]

\* C1 witness: GetNetwork returned not found on the third poll, and the delete
\* returned success after three polls.
C1_Witness ==
  \E r \in Res : Returned(r, "delete") /\ diags[r] = "ok"
                 /\ nfPoll[r] = 3 /\ polls[r] = 3

\* C2 as stated: a delete during which GetNetwork never returns not found
\* ends with the timeout failure.
C2_AlwaysTimeout ==
  \A r \in Res : (Returned(r, "delete") /\ nfPoll[r] = 0) => diags[r] = "timeout"

\* C2 amended: a delete during which GetNetwork never returns not found never
\* reports success and always ends with a failure: the error of the backend
\* call that failed, or else the timeout failure, once the Timeout has passed.
C2_FailureOrTimeout ==
  \A r \in Res :
    /\ [](op[r] = "delete" /\ nfPoll[r] = 0 => diags[r] # "ok")
    /\ []((Returned(r, "delete") /\ nfPoll[r] = 0) =>
            \/ diags[r] = "error" /\ refresh[r].err # "none"
            \/ /\ diags[r] = "timeout" /\ refresh[r].err = "none"
               /\ elapsed[r] + wait[r] >= Timeout)
    /\ (pc[r] # "idle") ~> (pc[r] = "idle")

\* C2 witness: a delete that polled until the Timeout and failed with it.
C2_Witness ==
  \E r \in Res : Returned(r, "delete") /\ nfPoll[r] = 0
                 /\ diags[r] = "timeout" /\ polls[r] > 1

\* The backend reported the network of the resource missing to the read: the
\* listing succeeded and does not hold the identifier.
ReportedMissing(l) == l.err = "none" /\ ~l.respNil /\ ~l.found

\* C3: a read to which the backend reported the network missing clears the
\* identifier and returns no error.
C3_MissingClearsId ==
  \A r \in Res :
    (Returned(r, "read") /\ ReportedMissing(lastList[r])) =>
       d[r].id = 0 /\ diags[r] = "ok"

\* C4: CustomizeDiff fails a plan that changes cidr_v4 of a resource with an
\* identifier, and passes every plan of a resource without one.
C4_ImmutableCidr ==
  /\ (lastDiff.id # 0 /\ lastDiff.old # lastDiff.new) => lastDiff.err
  /\ lastDiff.id = 0 => ~lastDiff.err

\* C4 witness: a plan that changed cidr_v4 of an existing network and failed.
C4_Witness ==
  lastDiff.id # 0 /\ lastDiff.old # lastDiff.new /\ lastDiff.err

\* C5: every request of a handler, and the region a read writes to the
\* resource data, carries the region of the handler's own resource.
C5_OwnRegion ==
  \A r \in Res :
    ownRegion[r] # "" =>
      /\ \A q \in reqs[r] : q.region = ownRegion[r]
      /\ (pc[r] = "idle" /\ d[r].id # 0) => d[r].region = ownRegion[r]

\* C6: a handler whose ListNetworks call failed with an error other than not
\* found returns an error diagnostic and keeps the identifier.
C6_ErrorAborts ==
  \A r \in Res :
    (pc[r] = "idle" /\ diags[r] # "none" /\ lastList[r].err = "other") =>
       IsError(diags[r]) /\ d[r].id # 0

\* C7: after a create that succeeded, the resource data hold the computed
\* attributes of the created network as the backend has them.
C7_CreateRoundTrip ==
  \A r \in Res :
    (Returned(r, "create") /\ diags[r] = "ok" /\ network[r] # 0
       /\ nets[network[r]].status = "active") =>
      LET net == nets[network[r]] IN
      /\ d[r].id = network[r]
      /\ d[r].name = net.name /\ d[r].region = net.region
      /\ d[r].label = net.label /\ d[r].default = net.default
      /\ d[r].cidr_v4 = net.cidr /\ d[r].nameservers_v4 = net.ns

\* C8: a delete whose last backend answer was not found returns success, and
\* one whose last backend answer was another error returns a failure.
C8_NotFoundIsSuccess ==
  \A r \in Res :
    Returned(r, "delete") =>
      /\ (refresh[r].err = "notfound" \/ nfPoll[r] = polls[r]) => diags[r] = "ok"
      /\ refresh[r].err = "other" => diags[r] = "error"

\* C9: once a DeleteNetwork request of a delete has returned success, the
\* handler issues no further DeleteNetwork request (every Refresh invocation
\* counted by polls begins with one).
C9_NoDeleteAfterSuccess ==
  [][\A r \in Res : (pc[r] # "idle" /\ delOk[r]) => polls'[r] = polls[r]]_vars

\* C10: when create returns, the identifier is that of the network the handler
\* created, if it created one; if CreateNetwork failed, the identifier is
\* empty and no NewFirewall request was issued.
C10_NoOrphan ==
  \A r \in Res :
    Returned(r, "create") =>
      /\ network[r] # 0 => d[r].id = network[r]
      /\ network[r] = 0 =>
           d[r].id = 0 /\ \A q \in reqs[r] : q.api # "NewFirewall"

====
